---- MODULE Spec2Model ----
(***************************************************************************)
(* A model of the entity synchronisation engine of soru-slack-client:      *)
(* Client (src/src/structures/client.ts) and Team                          *)
(* (src/src/structures/team.ts).  The transports (RTMClient, WebClient,    *)
(* SlackEventAdapter) and the credential store are the environment: every  *)
(* awaited call is a suspension point whose outcome is chosen by the       *)
(* environment, and every handler runs to completion between suspension    *)
(* points (single-threaded event loop).                                    *)
(***************************************************************************)
EXTENDS Integers, Sequences, FiniteSets, TLC

\* ---------------------------------------------------------------- domains
Teams == {"T1", "T2"}
\* the teams whose token is added in Spec; the other team stays unknown to
\* the client and is seen on the webhook only
Onboarded == {"T1"}
UserIds == {"U1", "B1"}
BotIds == {"B1"}
ChanIds == {"C1", "C2"}
\* conversations.list knows C1; the channel events are about C2, a channel
\* created later
EventChans == {"C2"}
Null == "null"
Undef == "undefined"
OurApp == "A1"
AppIds == {"A1", "A2"}

\* bounds of the model
MaxPages == 2
MaxOnboard == 1
MaxUninstall == 1
MaxSignals == 2
MaxDrops == 1
MaxPatches == 1
MaxLoads == 1

\* RECONNECT_PAUSE
RECONNECT_PAUSE == 15000

VARIABLES
    teams,      \* Client.teams: Map of team id -> Team object
    tokens,     \* Client.tokens: the team ids that have a token
    webMap,     \* Client.webMap: the team ids that have a WebClient
    rtmMap,     \* Client.rtmMap: the team ids that have a registered RTMClient
    users,      \* Client.users: Map of team id -> the self User
    startup,    \* Client.startup
    noRtm,      \* opts.noRtm
    optsEvents, \* whether opts.events is configured
    pending,    \* promise continuations not yet run (join / team.info .then)
    tasks,      \* suspended async handlers, each at its await
    gen,        \* objects ever created per key (object identity)
    emitted,    \* the domain events emitted by the last step
    calls,      \* the upsert / handleMessageEvent calls made by the last step
    env,        \* how often the environment has used each bounded input
    rtmState,   \* per RTMClient: none / starting / authed / up / down
    conn,       \* per RTMClient: reconnect handlers, timers and starts in flight
    hist,       \* per RTMClient: history counters of the reconnect logic
    shutdown,   \* Client.disconnect(): idle / running / done
    stored,     \* the credential store: team ids persisted with storeToken
    patchIO     \* input and output of the last Team._patch evaluated alone

vars == <<teams, tokens, webMap, rtmMap, users, startup, noRtm, optsEvents,
          pending, tasks, gen, emitted, calls, env, rtmState, conn, hist,
          shutdown, stored, patchIO>>

\* the element of a one-element set: { e(x) : x \in {v} } computes v once
\* and hands it to e, as the statements of a handler do in sequence
Only(S) == CHOOSE y \in S : TRUE

\* a Map: a function whose DOMAIN is the set of keys present
EmptyMap == << >>
Put(f, k, v) == [x \in DOMAIN f \cup {k} |-> IF x = k THEN v ELSE f[x]]
Del(f, k) == [x \in DOMAIN f \ {k} |-> f[x]]
Has(f, k) == k \in DOMAIN f

\* ------------------------------------------------------------ Team (team.ts)

\* a _patch that clears the name when the payload has none: not the code's,
\* the variant that TeamPatchFrame tells apart from it
TeamPatchClearing(team, data, hasTok) ==
    [team EXCEPT !.id = data.id,
                 !.name = IF "name" \in DOMAIN data THEN data.name ELSE Undef]

\* Team._patch(data), lines 49-67: data is a record whose DOMAIN is the set
\* of own properties of the payload; hasTok is client.tokens.has(this.id)
TeamPatch(team, data, hasTok) ==
    LET fake == IF "fakeId" \in DOMAIN data THEN data.fakeId ELSE team.fakeId
    IN  [team EXCEPT
            !.id = data.id,
            !.name = IF "name" \in DOMAIN data THEN data.name ELSE @,
            !.domain = IF "domain" \in DOMAIN data THEN data.domain ELSE @,
            !.icon = IF "icon" \in DOMAIN data
                     THEN (IF data.icon = Undef THEN Null ELSE data.icon)
                     ELSE @,
            !.partial = IF hasTok /\ fake # Null /\ ~@ THEN TRUE ELSE @,
            !.fakeId = IF hasTok THEN Null ELSE fake]

\* the fields of a Team before its constructor calls _patch, lines 30-42
BlankTeam(ref) ==
    [ref |-> ref, id |-> Undef, name |-> Undef, domain |-> Undef, icon |-> Null,
     fakeId |-> Null, partial |-> TRUE, users |-> EmptyMap, channels |-> EmptyMap]

\* new Team(client, data), lines 43-46
NewTeam(data, ref, hasTok) == TeamPatch(BlankTeam(ref), data, hasTok)

\* ------------------------------------------ User, Channel (not under src/)

\* (data.id || data.bot_id): an absent property reads as undefined
UserKey(data) == IF data.id # Undef THEN data.id ELSE data.bot_id

NewUser(data, ref) ==
    [ref |-> ref, id |-> UserKey(data), name |-> data.name, partial |-> TRUE]

UserPatch(user, data) ==
    IF data.name # Undef THEN [user EXCEPT !.name = data.name] ELSE user

fullBot(user) == user.id \in BotIds

NewChannel(data, ref) ==
    [ref |-> ref, id |-> data.id, name |-> data.name, members |-> {}]

ChannelPatch(chan, data) ==
    IF data.name # Undef THEN [chan EXCEPT !.name = data.name] ELSE chan

\* ------------------------------------------------------- events and calls

Ev(ev, team, id, su) ==
    [ev |-> ev, team |-> team, id |-> id, su |-> su, old |-> Null, new |-> Null]

MsgEv(ev, team, old, new) ==
    [ev |-> ev, team |-> team, id |-> Null, su |-> FALSE, old |-> old, new |-> new]

EntityEvents ==
    {"addTeam", "changeTeam", "addUser", "changeUser", "addChannel", "changeChannel"}

MessageEvents == {"message", "messageChanged", "messageDeleted"}

\* an emit that delivers the event twice: not the code's, the variant that
\* UpsertEmitsAsCoded tells apart from it
EmitTwice(c, ev, team, id) ==
    [c EXCEPT !.emitted = @ \o <<Ev(ev, team, id, team \in c.startup),
                                  Ev(ev, team, id, team \in c.startup)>>]

\* this.emit(ev, ...); su records whether the team is in startup right now
Emit(c, ev, team, id) ==
    [c EXCEPT !.emitted = Append(@, Ev(ev, team, id, team \in c.startup))]

\* the record of one call: what it found (known: the team is registered,
\* existed: the entity is, su: the team is in startup) and what it did (the
\* events it emitted, the joins and team.info fetches it started)
Call(op, team, id, create, sub, before, after) ==
    [op |-> op, team |-> team, id |-> id, create |-> create, sub |-> sub,
     known |-> Has(before.teams, team),
     existed |-> /\ Has(before.teams, team)
                 /\ \/ op = "addTeam"
                    \/ op = "addUser" /\ Has(before.teams[team].users, id)
                    \/ op = "addChannel" /\ Has(before.teams[team].channels, id),
     su |-> team \in before.startup,
     threw |-> after.threw,
     changed |-> after.teams # before.teams,
     evs |-> SubSeq(after.emitted, Len(before.emitted) + 1, Len(after.emitted)),
     joins |-> Cardinality({p \in after.pending \ before.pending : p.kind = "join"}),
     fetches |-> Cardinality({p \in after.pending \ before.pending : p.kind # "join"})]

Logged(op, team, id, create, sub, before, result) ==
    Only({[after EXCEPT !.calls =
               Append(@, Call(op, team, id, create, sub, before, after))] :
          after \in {result}})

\* ------------------------------------------------------ Client (client.ts)

\* an addTeam that stores a new Team on every call: not the code's, the
\* variant that IdentityKept tells apart from it
addTeamReplacing(c, data) ==
    Only({[c EXCEPT !.teams = Put(@, nt.id, nt), !.gen.t[data.id] = @ + 1] :
          nt \in {NewTeam(data, c.gen.t[data.id] + 1, data.id \in c.tokens)}})

\* Client.addTeam(data), lines 592-597: the Team exists
patchedTeam(c, key, nt) ==
    IF nt.id \notin c.startup
    THEN Emit([c EXCEPT !.teams[key] = nt], "changeTeam", nt.id, nt.id)
    ELSE [c EXCEPT !.teams[key] = nt]

\* Client.addTeam(data), lines 598-604: the Team is new
createdTeam(c, key, nt) ==
    IF nt.id \notin c.startup
    THEN Emit([c EXCEPT !.teams = Put(@, nt.id, nt), !.gen.t[key] = @ + 1],
              "addTeam", nt.id, nt.id)
    ELSE [c EXCEPT !.teams = Put(@, nt.id, nt), !.gen.t[key] = @ + 1]

\* Client.addTeam(data), lines 591-606
addTeamBody(c, data) ==
    IF Has(c.teams, data.id)
    THEN Only({patchedTeam(c, data.id, nt) :
               nt \in {TeamPatch(c.teams[data.id], data, data.id \in c.tokens)}})
    ELSE Only({createdTeam(c, data.id, nt) :
               nt \in {NewTeam(data, c.gen.t[data.id] + 1, data.id \in c.tokens)}})

addTeam(c, data) ==
    IF c.threw THEN c
    ELSE Logged("addTeam", data.id, data.id, FALSE, Null, c, addTeamBody(c, data))

\* Client.web(teamId) throws when the team has no WebClient, lines 67-73
webThrows(c, teamId) == teamId \notin c.webMap

\* the .then continuation of a promise, to be run by a later step
Later(c, kind, team, id, ref, data) ==
    [c EXCEPT !.pending = @ \cup
        {[kind |-> kind, team |-> team, id |-> id, ref |-> ref, data |-> data]}]

\* Client.addUser, lines 511-518: the user exists
patchedUser(c, team, nu) ==
    IF team.id \notin c.startup /\ ~fullBot(nu)
    THEN Emit([c EXCEPT !.teams[team.id].users[nu.id] = nu], "changeUser", team.id, nu.id)
    ELSE [c EXCEPT !.teams[team.id].users[nu.id] = nu]

\* an addUser that announces a new user also when it is a full bot: not the
\* code's, the variant that FullBotSilentOnBothPaths tells apart from it
createdUserAnnounced(c, team, nu) ==
    IF team.id \notin c.startup
    THEN Emit([c EXCEPT !.teams[team.id].users = Put(@, nu.id, nu),
                        !.gen.u[team.id][nu.id] = @ + 1],
              "addUser", team.id, nu.id)
    ELSE [c EXCEPT !.teams[team.id].users = Put(@, nu.id, nu),
                   !.gen.u[team.id][nu.id] = @ + 1]

\* Client.addUser, lines 519-527: the user is new
createdUser(c, team, nu) ==
    IF team.id \notin c.startup /\ ~fullBot(nu)
    THEN Emit([c EXCEPT !.teams[team.id].users = Put(@, nu.id, nu),
                        !.gen.u[team.id][nu.id] = @ + 1],
              "addUser", team.id, nu.id)
    ELSE [c EXCEPT !.teams[team.id].users = Put(@, nu.id, nu),
                   !.gen.u[team.id][nu.id] = @ + 1]

\* Client.addUser(data, createTeam), lines 507-538
addUserBody(c, data, createTeam) ==
    LET userId == UserKey(data)
        tid == data.team_id
    IN
    IF Has(c.teams, tid)
    THEN IF Has(c.teams[tid].users, userId)
         THEN Only({patchedUser(c, c.teams[tid], nu) :
                    nu \in {UserPatch(c.teams[tid].users[userId], data)}})
         ELSE Only({createdUser(c, c.teams[tid], nu) :
                    nu \in {NewUser(data, c.gen.u[tid][userId] + 1)}})
    ELSE IF createTeam
         THEN IF webThrows(c, tid)
              THEN [c EXCEPT !.threw = TRUE]
              ELSE Later(c, "userTeamInfo", tid, userId, 0, data)
         ELSE c

addUser(c, data, createTeam) ==
    IF c.threw THEN c
    ELSE Logged("addUser", data.team_id, UserKey(data), createTeam, Null, c,
                addUserBody(c, data, createTeam))

\* the team id Client.addChannel resolves: data.team_id || shared_team_ids[0]
ChanTeam(data) ==
    IF data.team_id # Undef THEN data.team_id
    ELSE IF data.shared_team_ids # Undef THEN data.shared_team_ids
    ELSE Null

\* Client.addChannel, lines 555-561: the channel exists
patchedChannel(c, team, nc) ==
    IF team.id \notin c.startup
    THEN Emit([c EXCEPT !.teams[team.id].channels[nc.id] = nc],
              "changeChannel", team.id, nc.id)
    ELSE [c EXCEPT !.teams[team.id].channels[nc.id] = nc]

\* an addChannel that registers a new channel and never joins it: not the
\* code's, the variant that JoinThenAddChannel tells apart from it
createdChannelUnjoined(c, team, nc, data) ==
    [c EXCEPT !.teams[team.id].channels = Put(@, nc.id, nc),
              !.gen.c[team.id][nc.id] = @ + 1]

\* Client.addChannel, lines 562-570: the channel is new
createdChannel(c, team, nc, data) ==
    IF team.id \notin c.startup
    THEN Later([c EXCEPT !.teams[team.id].channels = Put(@, nc.id, nc),
                         !.gen.c[team.id][nc.id] = @ + 1],
               "join", team.id, nc.id, nc.ref, data)
    ELSE [c EXCEPT !.teams[team.id].channels = Put(@, nc.id, nc),
                   !.gen.c[team.id][nc.id] = @ + 1]

\* Client.addChannel(data, createTeam), lines 553-581 (a team id is resolved)
addChannelBody(c, data, createTeam) ==
    LET tid == ChanTeam(data) IN
    IF Has(c.teams, tid)
    THEN IF Has(c.teams[tid].channels, data.id)
         THEN Only({patchedChannel(c, c.teams[tid], nc) :
                    nc \in {ChannelPatch(c.teams[tid].channels[data.id], data)}})
         ELSE Only({createdChannel(c, c.teams[tid], nc, data) :
                    nc \in {NewChannel(data, c.gen.c[tid][data.id] + 1)}})
    ELSE IF createTeam
         THEN IF webThrows(c, tid)
              THEN [c EXCEPT !.threw = TRUE]
              ELSE Later(c, "chanTeamInfo", tid, data.id, 0, data)
         ELSE c

addChannel(c, data, createTeam) ==
    IF c.threw \/ ChanTeam(data) = Null THEN c
    ELSE Logged("addChannel", ChanTeam(data), data.id, createTeam, Null, c,
                addChannelBody(c, data, createTeam))

\* Client.getUser / Client.getChannel resolve (a non-null result)
hasUser(c, userId, teamId) ==
    Has(c.teams, teamId) /\ Has(c.teams[teamId].users, userId)

hasChannel(c, channelId, teamId) ==
    Has(c.teams, teamId) /\ Has(c.teams[teamId].channels, channelId)

\* this.emit of a message event, with the Message objects it carries
EmitMsg(c, ev, team, old, new) ==
    [c EXCEPT !.emitted = Append(@, MsgEv(ev, team, old, new))]

SuppressedSubtypes == {"channel_join", "channel_name", "message_replied"}

\* Client.handleMessageEvent(data), lines 631-652
emitMessage(c, data) ==
    IF c.threw THEN c
    ELSE IF data.subtype = "message_changed"
         THEN EmitMsg(c, "messageChanged", data.team_id, "previous_message", "message")
         ELSE IF data.subtype = "message_deleted"
              THEN EmitMsg(c, "messageDeleted", data.team_id, "previous_message", Null)
              ELSE EmitMsg(c, "message", data.team_id, Null, "data")

\* Client.handleMessageEvent(data), lines 622-630
handleMessageEventBody(c, data) ==
    IF data.subtype \in SuppressedSubtypes THEN c
    ELSE Only({emitMessage(c1, data) :
               c1 \in {IF data.bot_id # Undef THEN addUser(c, data, TRUE) ELSE c}})

handleMessageEvent(c, data) ==
    Logged("handleMessageEvent", data.team_id, UserKey(data), TRUE, data.subtype, c,
           handleMessageEventBody(c, data))

\* ------------------------------------------------------------- payloads

Names == {"a"}
SelfUser == "U1"
MsgSubtypes == SuppressedSubtypes \cup {"message_changed", "message_deleted", "bot_message", Undef}

\* the message subtypes sent over the Events API in SpecWebhook
WebhookSubtypes == {"message_changed", Undef}

UserData(t, u, n) == [id |-> u, bot_id |-> Undef, name |-> n, team_id |-> t]

ChanData(t, ch, n) == [id |-> ch, name |-> n, team_id |-> t, shared_team_ids |-> Undef]

MsgData(t, sub, bot, u) ==
    [id |-> Undef, bot_id |-> bot, name |-> Undef, team_id |-> t, subtype |-> sub,
     user |-> u, channel |-> "C1"]

\* what team.info answers for team t, and the pages of the two list calls
RemoteTeam(t) == [id |-> t, name |-> "r", domain |-> "d"]
ChanPage(i) == IF i = 1 THEN <<"C1">> ELSE << >>
UserPage(i) == IF i = 1 THEN <<"U1">> ELSE IF i = 2 THEN <<"B1">> ELSE << >>

\* --------------------------------------------------- the client as a value

\* The fields a handler reads and writes, gathered so that the statements of
\* a handler compose; threw: an exception is propagating.
Cur ==
    [teams |-> teams, tokens |-> tokens, webMap |-> webMap, rtmMap |-> rtmMap,
     users |-> users, startup |-> startup, noRtm |-> noRtm, pending |-> pending,
     gen |-> gen, stored |-> stored, rtmState |-> rtmState, events |-> optsEvents,
     emitted |-> << >>, calls |-> << >>, threw |-> FALSE]

Commit(c) ==
    /\ teams' = c.teams
    /\ tokens' = c.tokens
    /\ webMap' = c.webMap
    /\ rtmMap' = c.rtmMap
    /\ users' = c.users
    /\ startup' = c.startup
    /\ noRtm' = c.noRtm
    /\ pending' = c.pending
    /\ gen' = c.gen
    /\ stored' = c.stored
    /\ rtmState' = c.rtmState
    /\ emitted' = c.emitted
    /\ calls' = c.calls

\* ------------------------------------------------------- Team.load (team.ts)

\* `this` of a running load is still the Team registered under its id
Live(c, k) == Has(c.teams, k.team) /\ c.teams[k.team].ref = k.ref

\* a handler's result: the client and the handler's own position
At(c, k, pc) == [c |-> c, k |-> [k EXCEPT !.pc = pc]]

Dead(c, k) == At(c, k, "dead")

\* this.client.web(id).<call>(...): throws without a WebClient, else suspends
WebCall(c, k, id, pc, page) ==
    IF webThrows(c, id) THEN Dead(c, k)
    ELSE [c |-> c, k |-> [k EXCEPT !.pc = pc, !.page = page]]

RECURSIVE addChannels(_, _, _)
addChannels(c, t, ids) ==
    IF ids = << >> THEN c
    ELSE Only({addChannels(c1, t, Tail(ids)) :
               c1 \in {addChannel(c, ChanData(t, Head(ids), "a"), TRUE)}})

RECURSIVE addUsers(_, _, _)
addUsers(c, t, ids) ==
    IF ids = << >> THEN c
    ELSE Only({addUsers(c1, t, Tail(ids)) :
               c1 \in {addUser(c, UserData(t, Head(ids), "a"), TRUE)}})

\* Team.load up to its first await, lines 79-84
LoadStart(c, k) ==
    LET fake == IF Live(c, k) THEN c.teams[k.team].fakeId ELSE Null
    IN  WebCall(c, k, IF fake # Null THEN fake ELSE k.team, "load.info", 0)

\* Team.load after the _patch of team.info, lines 90-103
LoadPatched(c, k) ==
    IF Live(c, k) /\ c.teams[k.team].fakeId # Null
    THEN At([c EXCEPT !.teams[k.team].partial = FALSE], k, "ret")
    ELSE WebCall(c, k, k.team, "load.chans", 1)

\* Team.load from the answer of team.info to the _patch, lines 85-88
LoadInfo(c, k, ok) ==
    IF ~ok THEN Dead(c, k)
    ELSE Only({LoadPatched(c1, k) :
               c1 \in {IF Live(c, k)
                       THEN [c EXCEPT !.teams[k.team] =
                                TeamPatch(@, RemoteTeam(k.team), k.team \in c.tokens)]
                       ELSE c}})

\* the conversations.list loop goes on or ends, lines 111-121
LoadChansNext(c, k) ==
    IF c.threw THEN Dead(c, k)
    ELSE IF k.page < MaxPages
         THEN WebCall(c, k, k.team, "load.chans", k.page + 1)
         ELSE WebCall(c, k, k.team, "load.users", 1)

\* one turn of the conversations.list loop: the page is added, lines 104-110
LoadChans(c, k, ok) ==
    IF ~ok THEN Dead(c, k)
    ELSE Only({LoadChansNext(c1, k) : c1 \in {addChannels(c, k.team, ChanPage(k.page))}})

\* a users.list loop that ends after its first page: not the code's, the
\* variant that LoadDrainsPages tells apart from it
LoadUsersNextEarly(c, k) ==
    IF c.threw THEN Dead(c, k)
    ELSE At(IF Live(c, k) THEN [c EXCEPT !.teams[k.team].partial = FALSE] ELSE c, k, "ret")

\* the users.list loop goes on, or load ends, lines 128-131
LoadUsersNext(c, k) ==
    IF c.threw THEN Dead(c, k)
    ELSE IF k.page < MaxPages
         THEN WebCall(c, k, k.team, "load.users", k.page + 1)
         ELSE At(IF Live(c, k) THEN [c EXCEPT !.teams[k.team].partial = FALSE] ELSE c,
                 k, "ret")

\* one turn of the users.list loop: the page is added, lines 122-127
LoadUsers(c, k, ok) ==
    IF ~ok THEN Dead(c, k)
    ELSE Only({LoadUsersNext(c1, k) : c1 \in {addUsers(c, k.team, UserPage(k.page))}})

LoadResume(c, k, ok) ==
    IF k.pc = "load.info" THEN LoadInfo(c, k, ok)
    ELSE IF k.pc = "load.chans" THEN LoadChans(c, k, ok)
    ELSE LoadUsers(c, k, ok)

LoadPcs == {"load.info", "load.chans", "load.users"}

\* ------------------------------------------------- Client.addToken, the
\* `authenticated` handler: the code between two awaits is one operator

\* rest: for an addToken called by the restore loop of connectToEventsApi,
\* the teams of the stored tokens from this one on; empty for any other call.
\* call: which of the application's load() calls this is, 0 for a handler
Task(kind, t, ids) ==
    [kind |-> kind, team |-> t, pc |-> "entry", ref |-> 0, page |-> 0, ids |-> ids,
     rest |-> << >>, call |-> 0]

\* addToken lines 140-159 and 341: opts.noRtm is read here, then either the
\* credential is stored or a new RTMClient is started
AddTokenMode(c, k) ==
    IF c.noRtm
    THEN At(IF k.ids THEN [c EXCEPT !.startup = @ \ {k.team}] ELSE c, k,
            IF c.events THEN "store" ELSE "done")
    ELSE At([c EXCEPT !.rtmState[k.team] = "starting"], k, "start")

\* this.users.set(teamId, clientUser) when getUser found the user
SetSelf(c, t) ==
    IF ~c.threw /\ hasUser(c, SelfUser, t)
    THEN [c EXCEPT !.users = Put(@, t, [id |-> SelfUser,
                                        ref |-> c.teams[t].users[SelfUser].ref])]
    ELSE c

\* addToken lines 135-139
AddTokenSelf(c, k) ==
    IF c.threw THEN Dead(c, k)
    ELSE IF hasUser(c, SelfUser, k.team) /\ c.teams[k.team].users[SelfUser].partial
         THEN At(c, k, "userLoad")
         ELSE AddTokenMode(c, k)

\* addToken lines 126-134
AddTokenUser(c, k) ==
    IF ~k.ids THEN AddTokenMode(c, k)
    ELSE Only({AddTokenSelf(c2, k) :
               c2 \in {SetSelf(addUser(c, UserData(k.team, SelfUser, SelfUser), TRUE),
                               k.team)}})

\* addToken lines 121-124
AddTokenTeam(c, k) ==
    Only({IF c.teams[k.team].partial THEN LoadStart(c, k1) ELSE AddTokenUser(c, k1) :
          k1 \in {[k EXCEPT !.ref = c.teams[k.team].ref]}})

\* addToken lines 113-120; ids: the call names the team and the user
AddTokenEntry(c, t, ids) ==
    IF ~ids THEN AddTokenUser(c, Task("addToken", t, ids))
    ELSE Only({AddTokenTeam(c2, Task("addToken", t, ids)) :
               c2 \in {addTeam([c EXCEPT !.startup = @ \cup {t}, !.webMap = @ \cup {t},
                                         !.tokens = @ \cup {t}],
                               [id |-> t, name |-> t])}})

\* the `authenticated` handler, lines 223-230
AuthStore(c, k) ==
    IF c.events THEN At(c, k, "store")
    ELSE At([c EXCEPT !.startup = @ \ {k.team}], k, "done")

\* the `authenticated` handler, lines 218-221
AuthTeam(c, k) ==
    Only({IF c.teams[k.team].partial THEN LoadStart(c, k1) ELSE AuthStore(c, k1) :
          k1 \in {[k EXCEPT !.ref = c.teams[k.team].ref]}})

\* the `authenticated` handler, lines 209-217
AuthUser(c, t) ==
    Only({AuthTeam(c4, Task("auth", t, TRUE)) :
          c4 \in {SetSelf(addUser(c, UserData(t, SelfUser, "a"), TRUE), t)}})

\* the `authenticated` handler, lines 202-208
AuthEntry(c, t) ==
    Only({AuthUser(c2, t) :
          c2 \in {addTeam([c EXCEPT !.startup = @ \cup {t}, !.rtmMap = @ \cup {t},
                                    !.webMap = @ \cup {t}, !.tokens = @ \cup {t},
                                    !.rtmState[t] = "authed"],
                          RemoteTeam(t))}})

\* what follows `await clientTeam.load()` in the handler that called it
AfterLoad(c, k) ==
    IF k.kind = "addToken" THEN AddTokenUser(c, k)
    ELSE IF k.kind = "load" THEN At(c, k, "done")
    ELSE AuthStore(c, k)

\* the await of opts.events.storeToken returns, lines 145-151 and 224-230
AfterStore(c, k) ==
    IF k.kind = "addToken"
    THEN At([c EXCEPT !.stored = @ \cup {IF k.ids THEN k.team ELSE ""}], k, "done")
    ELSE At([c EXCEPT !.stored = @ \cup {k.team}, !.startup = @ \ {k.team}], k, "done")

\* `await clientUser.load()` returns, lines 135-137 (User.load is not under src/)
AfterUserLoad(c, k, ok) ==
    IF ~ok THEN Dead(c, k)
    ELSE AddTokenMode(IF hasUser(c, SelfUser, k.team)
                      THEN [c EXCEPT !.teams[k.team].users[SelfUser].partial = FALSE]
                      ELSE c, k)

\* resolve() or reject(err) settles the promise of handler k; how: the place
\* in the code that settled it
Settled(c, k, how, ok) ==
    [c EXCEPT !.calls = Append(@, [op |-> "settled", kind |-> k.kind, team |-> k.team,
                                   ids |-> k.ids, how |-> how, ok |-> ok])]

\* what err.data.error of unable_to_rtm_start can be
RtmStartErrors == {"not_allowed_token_type", "invalid_auth"}

\* an unable_to_rtm_start handler that rejects whatever the error is: not the
\* code's, the variant that FallbackResolves tells apart from it
UnableEntryRejecting(c, k, err) ==
    Dead(Settled([c EXCEPT !.rtmState[k.team] = "down"], k, "unable_to_rtm_start", FALSE), k)

\* the unable_to_rtm_start handler up to its await, lines 174-190: the
\* fallback sets opts.noRtm and stores the token, any other error rejects
UnableEntry(c, k, err) ==
    IF err = "not_allowed_token_type" /\ c.events
    THEN At([c EXCEPT !.noRtm = TRUE, !.rtmState[k.team] = "refused"], k, "fallback")
    ELSE Dead(Settled([c EXCEPT !.rtmState[k.team] = "down"], k,
                      "unable_to_rtm_start", FALSE), k)

\* the unable_to_rtm_start handler after storeToken returned, line 185
AfterFallback(c, k) ==
    At(Settled([c EXCEPT !.stored = @ \cup {IF k.ids THEN k.team ELSE ""}], k,
               "fallback", TRUE), k, "done")

\* the catch of `await rtm.start()`, lines 343-346: reject(err)
StartCatch(c, k) ==
    Dead(Settled([c EXCEPT !.rtmState[k.team] = "down"], k, "rtm.start", FALSE), k)

\* rtm.disconnect() is called on the RTMClient of team t
DisconnectCall(c, t) ==
    [c EXCEPT !.rtmState[t] = IF @ \in {"starting", "authed", "up"} THEN "down" ELSE @]

\* a teardown that leaves the token of the team: not the code's, the variant
\* that MapsConsistent tells apart from it
UninstallKeepsToken(c, t) ==
    Logged("app_uninstalled", t, Null, FALSE, Null, c,
           [c EXCEPT !.webMap = @ \ {t}, !.rtmMap = @ \ {t},
                     !.teams = Del(@, t), !.users = Del(@, t)])

\* the app_uninstalled handler after its await, lines 403-407
UninstallDeletes(c, t) ==
    Logged("app_uninstalled", t, Null, FALSE, Null, c,
           [c EXCEPT !.webMap = @ \ {t}, !.rtmMap = @ \ {t}, !.tokens = @ \ {t},
                     !.teams = Del(@, t), !.users = Del(@, t)])

\* the app_uninstalled handler up to its await, lines 398-402
UninstallEntry(c, t) ==
    IF t \in c.rtmMap
    THEN At(DisconnectCall(c, t), Task("uninstall", t, TRUE), "disc")
    ELSE At(UninstallDeletes(c, t), Task("uninstall", t, TRUE), "done")

\* a suspended handler continues with the answer (ok or not) of its call
Resume(c, k, ok) ==
    IF k.pc \in LoadPcs
    THEN Only({IF r.k.pc = "ret" THEN AfterLoad(r.c, r.k) ELSE r :
               r \in {LoadResume(c, k, ok)}})
    ELSE IF k.pc = "userLoad" THEN AfterUserLoad(c, k, ok)
    ELSE IF k.pc = "disc" THEN At(UninstallDeletes(c, k.team), k, "done")
    ELSE IF k.pc = "fallback" THEN AfterFallback(c, k)
    ELSE AfterStore(c, k)

ResumePcs == LoadPcs \cup {"userLoad", "store", "disc", "fallback"}

\* the tasks after handler k has run up to its next await
Settle(ts, r) == IF r.k.pc \in {"done", "dead"} THEN ts ELSE ts \cup {r.k}

\* connectToEventsApi, lines 502-504: `await this.addToken(t.token, t.teamId,
\* t.userId)` for the first of the stored tokens in list
RestoreFrom(c, list) ==
    Only({[r EXCEPT !.k.rest = list] : r \in {AddTokenEntry(c, Head(list), TRUE)}})

\* the loop of connectToEventsApi goes on when the addToken it awaits has
\* resolved; a rejection leaves the loop, and r is the last of it
RestoreNext(r) ==
    IF r.k.pc = "done" /\ Len(r.k.rest) > 1 THEN RestoreFrom(r.c, Tail(r.k.rest)) ELSE r

\* ------------------------------------------------------------------ Init

\* per RTMClient: the reconnect() calls awaiting rtm.disconnect(), the timers
\* set and not yet fired, the rtm.start() calls of fired timers not yet settled
ConnInit == [closing |-> 0, timers |-> 0, starts |-> 0]

\* per RTMClient, what has happened so far: the goodbye/disconnected signals,
\* the timers set and the delay of the last one, the restart attempts, those
\* that failed, the `disconnected` events emitted, and the restart attempts
\* made after Client.disconnect() was called
HistInit ==
    [signals |-> 0, scheduled |-> 0, delay |-> 0, attempts |-> 0, failed |-> 0,
     disc |-> 0, late |-> 0]

\* the state after `new Client(opts)`, with and without opts.noRtm and
\* opts.events
InitClient ==
    /\ teams = EmptyMap
    /\ tokens = {}
    /\ webMap = {}
    /\ rtmMap = {}
    /\ users = EmptyMap
    /\ startup = {}
    /\ noRtm \in BOOLEAN
    /\ optsEvents \in BOOLEAN
    /\ pending = {}
    /\ tasks = {}
    /\ gen = [t |-> [x \in Teams |-> 0],
              u |-> [x \in Teams |-> [y \in UserIds |-> 0]],
              c |-> [x \in Teams |-> [y \in ChanIds |-> 0]]]
    /\ emitted = << >>
    /\ calls = << >>
    /\ env = [onboard |-> [x \in Teams |-> 0], uninstall |-> 0, restore |-> << >>,
              loads |-> 0]
    /\ rtmState = [x \in Teams |-> "none"]
    /\ conn = [x \in Teams |-> ConnInit]
    /\ hist = [x \in Teams |-> HistInit]
    /\ shutdown = [phase |-> "idle", visited |-> {}]
    /\ stored = {}

\* the state after construction; no Team is being patched outside the registry
Init == InitClient /\ patchIO = Null

\* --------------------------------------------------------------- actions

ConnVars == <<conn, hist, shutdown>>

\* a handler that may suspend runs up to its next await; what awaits the
\* handler goes on in the same turn when the handler has resolved
Runs(r, ts) == \E r2 \in {RestoreNext(r)} : Commit(r2.c) /\ tasks' = Settle(ts, r2)

\* the addToken call of team t that awaits rtm.start()
Starting(t) == {k \in tasks : k.kind = "addToken" /\ k.team = t /\ k.pc = "start"}

\* the tokens that opts.events.getTokens() answers, in their order
RestoreLists == {<<"T1", "T2">>, <<"T2", "T1">>}

\* connectToEventsApi, lines 501-504: the stored tokens are added one after
\* the other
Restore(list) ==
    /\ optsEvents
    /\ env.restore = << >>
    /\ tasks = {}
    /\ \E c \in {Cur} : \E r \in {RestoreFrom(c, list)} : Runs(r, tasks)
    /\ env' = [env EXCEPT !.restore = list]
    /\ UNCHANGED <<optsEvents, patchIO, ConnVars>>

\* Client.addToken(token, teamId, userId) is called with the token of team t
AddToken(t, ids) ==
    /\ env.onboard[t] < MaxOnboard
    /\ \A k \in tasks : ~(k.kind = "addToken" /\ k.team = t)
    /\ noRtm \/ rtmState[t] = "none"
    /\ \E c \in {Cur} : \E r \in {AddTokenEntry(c, t, ids)} : Runs(r, tasks)
    /\ env' = [env EXCEPT !.onboard[t] = @ + 1]
    /\ UNCHANGED <<optsEvents, patchIO, ConnVars>>

\* the record of the answer that handler k, suspended at k.pc, is given
Answered(c, k, ok) ==
    [c EXCEPT !.calls = Append(@, [op |-> "answer", k |-> k, ok |-> ok])]

\* the awaited call of a suspended handler returns
TaskStep(k, ok) ==
    /\ k \in tasks
    /\ k.pc \in ResumePcs
    /\ \E c \in {Answered(Cur, k, ok)} : \E r \in {Resume(c, k, ok)} : Runs(r, tasks \ {k})
    /\ UNCHANGED <<optsEvents, env, patchIO, ConnVars>>

\* the application registers team t under the placeholder identity fake:
\* client.addTeam({id: t, fakeId: fake})
ApiAddTeam(t, fake) ==
    /\ ~Has(teams, t)
    /\ \E c \in {Cur} : Commit(addTeam(c, [id |-> t, fakeId |-> fake]))
    /\ UNCHANGED <<optsEvents, tasks, env, patchIO, ConnVars>>

\* the application calls load() on the Team registered under t
ApiLoad(t) ==
    /\ Has(teams, t)
    /\ env.loads < MaxLoads
    /\ \E c \in {Cur} :
          \E r \in {LoadStart(c, [Task("load", t, TRUE) EXCEPT !.ref = c.teams[t].ref,
                                                                 !.call = env.loads + 1])} :
             Runs(r, tasks)
    /\ env' = [env EXCEPT !.loads = @ + 1]
    /\ UNCHANGED <<optsEvents, patchIO, ConnVars>>

\* the RTMClient of team t emits `authenticated`
Authenticated(t) ==
    /\ rtmState[t] = "starting"
    /\ \E c \in {Cur} : \E r \in {AuthEntry(c, t)} : Runs(r, tasks)
    /\ UNCHANGED <<optsEvents, env, patchIO, ConnVars>>

\* the RTMClient of team t emits `ready`: resolve(), lines 233-236
Ready(t) ==
    /\ rtmState[t] = "authed"
    /\ \E c \in {[Cur EXCEPT !.rtmState[t] = "up"]} :
          IF Starting(t) = {} THEN Commit(c) /\ tasks' = tasks
          ELSE \E k \in Starting(t) : \E r \in {At(c, k, "done")} : Runs(r, tasks \ {k})
    /\ UNCHANGED <<optsEvents, env, patchIO, ConnVars>>

\* RTM handlers registered whether or not opts.events is configured: not the
\* code's, the variant that OneTransportHandles tells apart from it
ArrivesAlways(via, t, rtmToo) ==
    \/ via \in AppIds /\ optsEvents
    \/ via = "rtm" /\ rtmState[t] \in {"authed", "up"}

\* an event reaches a handler: over the webhook (discarded unless the app id
\* is ours) or over the RTMClient of team t
Arrives(via, t, rtmToo) ==
    \/ via \in AppIds /\ optsEvents
    \/ via = "rtm" /\ rtmToo /\ rtmState[t] \in {"authed", "up"}

Vias == AppIds \cup {"rtm"}

\* handlers that do not compare the app id: not the code's, the variant that
\* ForeignWebhookDiscarded tells apart from it
HandledAny(via) == via \in Vias

Handled(via) == via \in {"rtm", OurApp}

\* an event is handed to its handler: the record of what was delivered, over
\* which transport and with which app id
Delivery(c, via, ev, t) ==
    [c EXCEPT !.calls = Append(@, [op |-> "deliver", via |-> via, ev |-> ev, team |-> t])]

\* the RTMClient of team t emits unable_to_rtm_start while addToken awaits
\* rtm.start(), lines 174-190
UnableToRtmStart(t, err) ==
    /\ rtmState[t] = "starting"
    /\ \E k \in Starting(t) :
          \E c \in {Delivery(Cur, "rtm", err, t)} :
             \E r \in {UnableEntry(c, k, err)} : Runs(r, tasks \ {k})
    /\ UNCHANGED <<optsEvents, env, patchIO, ConnVars>>

\* the rtm.start() that addToken awaits rejects, lines 340-346
StartRejected(t) ==
    /\ rtmState[t] = "starting"
    /\ \E k \in Starting(t) :
          \E c \in {Cur} : \E r \in {StartCatch(c, k)} : Runs(r, tasks \ {k})
    /\ UNCHANGED <<optsEvents, env, patchIO, ConnVars>>

\* team_join / user_change (lines 285-291, 421-430), bot_added / bot_changed
\* (lines 238-244). With opts.events the RTMClient has no team_join /
\* user_change handler, so what reaches addUser over it is a bot event
UserEventName(via) == IF via = "rtm" /\ optsEvents THEN "bot_changed" ELSE "user_change"

UserEvent(via, t, u, n) ==
    /\ Arrives(via, t, ~optsEvents \/ u \in BotIds)
    /\ \E c \in {Delivery(Cur, via, UserEventName(via), t)} :
          Commit(IF Handled(via) THEN addUser(c, UserData(t, u, n), TRUE) ELSE c)
    /\ UNCHANGED <<optsEvents, tasks, env, patchIO, ConnVars>>

\* im_created / channel_created / channel_rename / group_rename
\* (lines 277-283, 410-419)
ChannelEvent(via, t, ch, n) ==
    /\ Arrives(via, t, ~optsEvents)
    /\ \E c \in {Delivery(Cur, via, "channel_created", t)} :
          Commit(IF Handled(via) THEN addChannel(c, ChanData(t, ch, n), TRUE) ELSE c)
    /\ UNCHANGED <<optsEvents, tasks, env, patchIO, ConnVars>>

\* team_rename (lines 311-317, 459-468)
TeamRename(via, t, n) ==
    /\ Arrives(via, t, ~optsEvents)
    /\ \E c \in {Delivery(Cur, via, "team_rename", t)} :
          Commit(IF Handled(via) THEN addTeam(c, [id |-> t, name |-> n]) ELSE c)
    /\ UNCHANGED <<optsEvents, tasks, env, patchIO, ConnVars>>

\* message (lines 293-297, 432-439): from a bot, or else from a user
MessageEvent(via, t, sub, bot) ==
    /\ Arrives(via, t, ~optsEvents)
    /\ \E c \in {Delivery(Cur, via, "message", t)} :
          Commit(IF Handled(via)
                 THEN handleMessageEvent(c, MsgData(t, sub, bot,
                                                    IF bot = Undef THEN SelfUser ELSE Undef))
                 ELSE c)
    /\ UNCHANGED <<optsEvents, tasks, env, patchIO, ConnVars>>

\* app_uninstalled, lines 393-408
AppUninstalled(via, t) ==
    /\ optsEvents
    /\ via \in AppIds
    /\ env.uninstall < MaxUninstall
    /\ \E c \in {Delivery(Cur, via, "app_uninstalled", t)} :
          IF Handled(via)
          THEN \E r \in {UninstallEntry(c, t)} : Runs(r, tasks)
          ELSE Commit(c) /\ tasks' = tasks
    /\ env' = [env EXCEPT !.uninstall = @ + 1]
    /\ UNCHANGED <<optsEvents, patchIO, ConnVars>>

MemberOps == {"member_joined_channel", "member_left_channel"}

\* memberJoinedChannel / memberLeftChannel with the User and the Channel
MemberEv(ev, team, user, chan, su) ==
    [ev |-> ev, team |-> team, id |-> user, su |-> su, old |-> Null, new |-> Null,
     chan |-> chan]

\* a membership handler that does not look the channel up before it emits:
\* not the code's, the variant that MembershipFollowsResolution tells apart
\* from it
memberEventUnchecked(c, op, t, u, ch) ==
    IF hasUser(c, u, t)
    THEN [c EXCEPT !.emitted = Append(@, MemberEv("memberJoinedChannel", t, u, ch,
                                                  t \in c.startup))]
    ELSE c

\* the member_joined_channel / member_left_channel handlers, lines 319-337
\* and 470-494, after the app id test
memberEventBody(c, op, t, u, ch) ==
    IF hasUser(c, u, t) /\ hasChannel(c, ch, t)
    THEN IF op = "member_joined_channel"
         THEN [c EXCEPT !.teams[t].channels[ch].members = @ \cup {u},
                        !.emitted = Append(@, MemberEv("memberJoinedChannel", t, u, ch,
                                                       t \in c.startup))]
         ELSE [c EXCEPT !.teams[t].channels[ch].members = @ \ {u},
                        !.emitted = Append(@, MemberEv("memberLeftChannel", t, u, ch,
                                                       t \in c.startup))]
    ELSE c

\* member_joined_channel / member_left_channel
MemberEvent(via, t, op, u, ch) ==
    /\ Arrives(via, t, ~optsEvents)
    /\ \E c \in {Delivery(Cur, via, op, t)} :
          Commit(IF Handled(via)
                 THEN Logged(op, t, u, FALSE, ch, c, memberEventBody(c, op, t, u, ch))
                 ELSE c)
    /\ UNCHANGED <<optsEvents, tasks, env, patchIO, ConnVars>>

ReactionOps == {"reaction_added", "reaction_removed"}

\* reaction_added / reaction_removed (lines 299-309, 441-457): a Reaction is
\* made of the payload and emitted
ReactionEvent(via, t, op) ==
    /\ Arrives(via, t, ~optsEvents)
    /\ \E c \in {Delivery(Cur, via, op, t)} :
          Commit(IF Handled(via)
                 THEN Emit(c, IF op = "reaction_added" THEN "reactionAdded"
                              ELSE "reactionRemoved", t, Null)
                 ELSE c)
    /\ UNCHANGED <<optsEvents, tasks, env, patchIO, ConnVars>>

\* the .then of a team.info promise, lines 531-536 and 574-579
TeamInfoThen(c, p, ok) ==
    IF ~ok THEN c
    ELSE Only({IF p.kind = "userTeamInfo" THEN addUser(c1, p.data, FALSE)
               ELSE addChannel(c1, p.data, FALSE) :
               c1 \in {addTeam(c, RemoteTeam(p.team))}})

\* the .then of a promise runs: newChan.join() settled either way (line 567),
\* or team.info answered with or without a team
Continuation(p, ok) ==
    /\ p \in pending
    /\ \E c \in {[Cur EXCEPT !.pending = @ \ {p}]} :
          Commit(IF p.kind = "join"
                 THEN Logged("join.then", p.team, p.id, FALSE, Null, c,
                             Emit(c, "addChannel", p.team, p.id))
                 ELSE TeamInfoThen(c, p, ok))
    /\ UNCHANGED <<optsEvents, tasks, env, patchIO, ConnVars>>

\* ------------------------------------------- reconnect and disconnect

Sync == <<tokens, webMap, rtmMap, users, startup, noRtm, optsEvents, pending,
          tasks, gen, calls, env, stored, patchIO, teams>>

\* the RTMClient of team t emits `goodbye` or `disconnected` (lines 192-200),
\* at most n times:
\* reconnect() runs up to `await rtm.disconnect()`, line 161
Signal(t, sig, n) ==
    /\ rtmState[t] \in {"authed", "up", "down"}
    /\ hist[t].signals < n
    /\ rtmState' = DisconnectCall(Cur, t).rtmState
    /\ conn' = [conn EXCEPT ![t].closing = @ + 1]
    /\ hist' = [hist EXCEPT ![t].signals = @ + 1]
    /\ emitted' = << >>
    /\ UNCHANGED <<Sync, shutdown>>

\* a reconnect() that sets its timer twice: not the code's, the variant that
\* ReconnectOnce tells apart from it
ClosedTwice(t) ==
    /\ conn[t].closing > 0
    /\ conn' = [conn EXCEPT ![t].closing = @ - 1, ![t].timers = @ + 2]
    /\ hist' = [hist EXCEPT ![t].scheduled = @ + 2, ![t].delay = RECONNECT_PAUSE]
    /\ emitted' = << >>
    /\ UNCHANGED <<Sync, rtmState, shutdown>>

\* `await rtm.disconnect()` of a reconnect() returns: setTimeout, lines 163-171
Closed(t) ==
    /\ conn[t].closing > 0
    /\ conn' = [conn EXCEPT ![t].closing = @ - 1, ![t].timers = @ + 1]
    /\ hist' = [hist EXCEPT ![t].scheduled = @ + 1, ![t].delay = RECONNECT_PAUSE]
    /\ emitted' = << >>
    /\ UNCHANGED <<Sync, rtmState, shutdown>>

\* a timer fires: rtm.start() is called, line 165
TimerFire(t) ==
    /\ conn[t].timers > 0
    /\ conn' = [conn EXCEPT ![t].timers = @ - 1, ![t].starts = @ + 1]
    /\ hist' = [hist EXCEPT ![t].attempts = @ + 1,
                            ![t].late = IF shutdown.phase = "idle" THEN @ ELSE @ + 1]
    /\ rtmState' = [rtmState EXCEPT ![t] = IF @ = "down" THEN "starting" ELSE @]
    /\ emitted' = << >>
    /\ UNCHANGED <<Sync, shutdown>>

\* the rtm.start() of a timer settles: "Reconnected!", or the catch block
\* emits `disconnected`, lines 166-170
Restarted(t, ok) ==
    /\ conn[t].starts > 0
    /\ conn' = [conn EXCEPT ![t].starts = @ - 1]
    /\ IF ok
       THEN /\ rtmState[t] \in {"authed", "up"}
            /\ emitted' = << >>
            /\ UNCHANGED <<rtmState, hist>>
       ELSE /\ rtmState' = [rtmState EXCEPT ![t] = IF @ = "starting" THEN "down" ELSE @]
            /\ emitted' = <<Ev("disconnected", t, Null, FALSE)>>
            /\ hist' = [hist EXCEPT ![t].failed = @ + 1, ![t].disc = @ + 1]
    /\ UNCHANGED <<Sync, shutdown>>

\* one turn of the loop of Client.disconnect(), lines 85-87: the next
\* RTMClient of rtmMap is told to disconnect, or the loop ends
DisconnectLoop ==
    IF rtmMap \ shutdown.visited = {}
    THEN /\ shutdown' = [shutdown EXCEPT !.phase = "done"]
         /\ UNCHANGED rtmState
    ELSE \E t \in rtmMap \ shutdown.visited :
            /\ shutdown' = [phase |-> "closing", visited |-> shutdown.visited \cup {t}]
            /\ rtmState' = DisconnectCall(Cur, t).rtmState

\* Client.disconnect() is called, lines 83-91
Disconnect ==
    /\ shutdown.phase = "idle"
    /\ DisconnectLoop
    /\ emitted' = << >>
    /\ UNCHANGED <<Sync, conn, hist>>

\* `await rtm.disconnect()` of Client.disconnect() returns
DisconnectStep ==
    /\ shutdown.phase = "closing"
    /\ DisconnectLoop
    /\ emitted' = << >>
    /\ UNCHANGED <<Sync, conn, hist>>

\* ------------------------------------------------------------ Team._patch

\* the states a Team can be in, and the payloads _patch can be given: every
\* set of own properties, each with a value
TeamStates ==
    {[BlankTeam(1) EXCEPT !.id = "T1", !.name = n, !.domain = d, !.icon = i,
                          !.fakeId = f, !.partial = p] :
        n \in {Undef, "a"}, d \in {Undef, "d"}, i \in {Null, "i"},
        f \in {Null, "F1"}, p \in BOOLEAN}

PayloadValue(f, alt) ==
    IF f = "id" THEN "T1"
    ELSE IF f = "name" THEN "n"
    ELSE IF f = "domain" THEN "e"
    ELSE IF f = "icon" THEN (IF alt THEN Undef ELSE "j")
    ELSE (IF alt THEN Null ELSE "F2")

Payloads ==
    {[f \in {"id"} \cup S |-> PayloadValue(f, alt)] :
        S \in SUBSET {"name", "domain", "icon", "fakeId"}, alt \in BOOLEAN}

InitPatch ==
    /\ InitClient
    /\ \E tm \in TeamStates :
          patchIO = [team |-> tm, prev |-> tm, data |-> [id |-> "T1"],
                     hasTok |-> FALSE, n |-> 0]

\* team._patch(data) on a Team that is not in the registry; hasTok records
\* what client.tokens.has(this.id) answered
PatchTeam(data) ==
    /\ patchIO.n < MaxPatches
    /\ patchIO' = [team |-> TeamPatch(patchIO.team, data, data.id \in tokens),
                   prev |-> patchIO.team, data |-> data,
                   hasTok |-> data.id \in tokens, n |-> patchIO.n + 1]
    /\ UNCHANGED <<teams, tokens, webMap, rtmMap, users, startup, noRtm, optsEvents,
                   pending, tasks, gen, emitted, calls, env, rtmState, stored, ConnVars>>

\* a token for the team is stored, as addToken line 116 does
TokenSet(t) ==
    /\ t \notin tokens
    /\ tokens' = tokens \cup {t}
    /\ UNCHANGED <<teams, webMap, rtmMap, users, startup, noRtm, optsEvents, pending,
                   tasks, gen, emitted, calls, env, rtmState, stored, patchIO, ConnVars>>

\* --------------------------------------------------------- specifications

\* SpecPatch: _patch is applied to every Team state with every payload, with
\* and without a token for the team
NextPatch ==
    \/ \E data \in Payloads : PatchTeam(data)
    \/ \E t \in Onboarded : TokenSet(t)

SpecPatch == InitPatch /\ [][NextPatch]_vars


\* onboarding of the teams in ts: addToken and the handlers it leads to
Onboarding(ts) ==
    \/ \E t \in ts, ids \in BOOLEAN : AddToken(t, ids)
    \/ \E k \in tasks, ok \in BOOLEAN : TaskStep(k, ok)
    \/ \E t \in ts : Authenticated(t)
    \/ \E t \in ts : Ready(t)

\* the channel events of both transports and the promise continuations
ChannelUpserts ==
    \/ \E via \in Vias, t \in Teams, ch \in EventChans, n \in Names :
          ChannelEvent(via, t, ch, n)
    \/ \E p \in pending, ok \in BOOLEAN : Continuation(p, ok)

\* the entity events of both transports, for every team
Upserts ==
    \/ \E via \in Vias, t \in Teams, u \in UserIds, n \in Names : UserEvent(via, t, u, n)
    \/ \E via \in Vias, t \in Teams, n \in Names : TeamRename(via, t, n)
    \/ ChannelUpserts

\* Spec: one team is onboarded while entity events arrive for both teams
Next == Onboarding(Onboarded) \/ Upserts

Spec == Init /\ [][Next]_vars

\* the reconnect cycle of the RTMClient of team t, for at most n signals
Reconnect(t, n) ==
    \/ \E sig \in {"goodbye", "disconnected"} : Signal(t, sig, n)
    \/ Closed(t)
    \/ TimerFire(t)
    \/ \E ok \in BOOLEAN : Restarted(t, ok)

\* SpecStartup: one team is onboarded, its session drops and is restarted,
\* while channel events arrive
NextStartup ==
    \/ Onboarding(Onboarded)
    \/ ChannelUpserts
    \/ \E t \in Onboarded : Reconnect(t, MaxDrops)

SpecStartup == Init /\ [][NextStartup]_vars

\* SpecMsg: one team is onboarded while message events arrive for both teams
NextMsg ==
    \/ Onboarding(Onboarded)
    \/ \E via \in Vias, t \in Teams, sub \in MsgSubtypes, bot \in BotIds \cup {Undef} :
          MessageEvent(via, t, sub, bot)

SpecMsg == Init /\ [][NextMsg]_vars

\* the membership and reaction events of both transports
MemberEvents ==
    \/ \E via \in Vias, t \in Teams, op \in MemberOps, u \in UserIds, ch \in ChanIds :
          MemberEvent(via, t, op, u, ch)
    \/ \E via \in Vias, t \in Teams, op \in ReactionOps : ReactionEvent(via, t, op)

\* SpecMember: one team is onboarded while membership and reaction events
\* arrive for both teams
NextMember == Onboarding(Onboarded) \/ MemberEvents

SpecMember == Init /\ [][NextMember]_vars

\* every event of the Events API about team t, with the configured app id
\* and with another
Webhooks(t) ==
    \/ \E via \in AppIds, u \in BotIds, n \in Names : UserEvent(via, t, u, n)
    \/ \E via \in AppIds, ch \in EventChans, n \in Names : ChannelEvent(via, t, ch, n)
    \/ \E p \in pending, ok \in BOOLEAN : Continuation(p, ok)
    \/ \E via \in AppIds, n \in Names : TeamRename(via, t, n)
    \/ \E via \in AppIds, sub \in WebhookSubtypes : MessageEvent(via, t, sub, Undef)
    \/ \E via \in AppIds, op \in MemberOps, ch \in ChanIds \ EventChans :
          MemberEvent(via, t, op, SelfUser, ch)
    \/ \E via \in AppIds, op \in ReactionOps : ReactionEvent(via, t, op)
    \/ \E via \in AppIds : AppUninstalled(via, t)

\* SpecWebhook: one team is onboarded while events of every kind arrive over
\* the Events API
NextWebhook == Onboarding(Onboarded) \/ \E t \in Onboarded : Webhooks(t)

SpecWebhook == Init /\ [][NextWebhook]_vars

\* the first rtm.start() of a session fails
Failures(ts) ==
    \/ \E t \in ts, err \in RtmStartErrors : UnableToRtmStart(t, err)
    \/ \E t \in ts : StartRejected(t)

\* SpecFallback: both teams are onboarded, and a session may fail to start
NextFallback == Onboarding(Teams) \/ Failures(Teams)

SpecFallback == Init /\ [][NextFallback]_vars

\* SpecLoad: one team is onboarded, the other is registered under the first
\* one's identity, and the application loads a team
NextLoad ==
    \/ Onboarding(Onboarded)
    \/ \E t \in Teams \ Onboarded, fake \in Onboarded : ApiAddTeam(t, fake)
    \/ \E t \in Teams : ApiLoad(t)

SpecLoad == Init /\ [][NextLoad]_vars

\* the join of channel ch of team t settles, and its .then runs
JoinSettles(t, ch) ==
    \E p \in pending, ok \in BOOLEAN :
        p.kind = "join" /\ p.team = t /\ p.id = ch /\ Continuation(p, ok)

\* SpecJoin: one team is onboarded while channel events arrive; a join that
\* was started does settle
NextJoin == Onboarding(Onboarded) \/ ChannelUpserts

SpecJoin ==
    /\ Init
    /\ [][NextJoin]_vars
    /\ \A t \in Teams : \A ch \in ChanIds : WF_vars(JoinSettles(t, ch))

\* SpecRestore: the stored tokens of both teams are restored, and a load or a
\* session start may fail
NextRestore ==
    \/ \E list \in RestoreLists : Restore(list)
    \/ \E k \in tasks, ok \in BOOLEAN : TaskStep(k, ok)
    \/ \E t \in Teams : Authenticated(t)
    \/ \E t \in Teams : Ready(t)
    \/ Failures(Teams)

SpecRestore == Init /\ [][NextRestore]_vars

\* SpecUninstall: both teams are onboarded and the app is uninstalled
NextUninstall ==
    \/ Onboarding(Teams)
    \/ \E via \in AppIds, t \in Teams : AppUninstalled(via, t)

SpecUninstall == Init /\ [][NextUninstall]_vars

\* SpecConn: one team is onboarded, its session drops and is restarted, and
\* the client is disconnected; a promise that settles and a timer that
\* is due do run
NextConn ==
    \/ Onboarding(Onboarded)
    \/ \E t \in Onboarded : Reconnect(t, MaxSignals)
    \/ Disconnect
    \/ DisconnectStep

SpecConn ==
    /\ Init
    /\ [][NextConn]_vars
    /\ \A t \in Teams : WF_vars(Closed(t)) /\ WF_vars(TimerFire(t))

\* ------------------------------------------------------------ properties

UpsertOps == {"addTeam", "addUser", "addChannel"}

\* the calls of the last step that are upserts made outside startup
OutsideStartup(k) == k.op \in UpsertOps /\ ~k.su

\* call k emitted the one event ev for its entity and nothing else
OneEv(k, ev) == k.evs = <<Ev(ev, k.team, k.id, FALSE)>>

\* the event the upsert of call k owes: add<Entity> or change<Entity>
Owed(k) ==
    IF k.op = "addTeam" THEN (IF k.existed THEN "changeTeam" ELSE "addTeam")
    ELSE IF k.op = "addUser" THEN (IF k.existed THEN "changeUser" ELSE "addUser")
    ELSE (IF k.existed THEN "changeChannel" ELSE "addChannel")

\* C1: no addTeam, changeTeam, addUser, changeUser, addChannel or
\* changeChannel event is emitted for a team at a moment when the team is in
\* the startup set.
StartupSuppressesEvents ==
    \A i \in DOMAIN emitted : emitted[i].ev \in EntityEvents => ~emitted[i].su

SameObjects ==
    \A t \in DOMAIN teams :
        /\ t \in DOMAIN teams'
        /\ teams'[t].ref = teams[t].ref
        /\ \A u \in DOMAIN teams[t].users :
              /\ u \in DOMAIN teams'[t].users
              /\ teams'[t].users[u].ref = teams[t].users[u].ref
        /\ \A ch \in DOMAIN teams[t].channels :
              /\ ch \in DOMAIN teams'[t].channels
              /\ teams'[t].channels[ch].ref = teams[t].channels[ch].ref

\* every Team, User and Channel is stored under a key equal to its id, and is
\* the first object made for that key
KeyedById ==
    \A t \in DOMAIN teams :
        /\ teams[t].id = t
        /\ teams[t].ref = 1
        /\ \A u \in DOMAIN teams[t].users :
              teams[t].users[u].id = u /\ teams[t].users[u].ref = 1
        /\ \A ch \in DOMAIN teams[t].channels :
              teams[t].channels[ch].id = ch /\ teams[t].channels[ch].ref = 1

\* C3: upserts with the same (id, teamId) keep the key mapped to the object
\* the first upsert created and only patch its fields; the teams map holds
\* one Team per team id, stored under a key equal to its id field.
IdentityKept == []KeyedById /\ [][SameObjects]_vars

\* a later upsert of a user that is present changed its fields in place
PatchedInPlace ==
    \E i \in DOMAIN calls :
        /\ calls[i].op = "addUser"
        /\ calls[i].existed
        /\ calls[i].changed
        /\ ~calls[i].threw
        /\ teams[calls[i].team].users[calls[i].id].ref = 1

\* a field f that the payload of the last _patch does not have
Absent(f) == patchIO.n > 0 /\ f \notin DOMAIN patchIO.data

Kept(f) == patchIO.team[f] = patchIO.prev[f]

\* C4 as the spec states it: _patch leaves name, domain, icon, fakeId and
\* partial unchanged when the payload does not have them (no payload has
\* partial).
TeamPatchKeepsAbsent ==
    /\ \A f \in {"name", "domain", "icon", "fakeId"} : Absent(f) => Kept(f)
    /\ patchIO.n > 0 => Kept("partial")

\* C4: _patch leaves name, domain and icon unchanged when the payload does
\* not have them; it leaves fakeId (when the payload has none) and partial
\* unchanged when the client has no token for the team; with a token it
\* resets fakeId to null and sets partial when a fakeId was set.
TeamPatchFrame ==
    /\ \A f \in {"name", "domain", "icon"} : Absent(f) => Kept(f)
    /\ patchIO.n > 0 =>
          LET fake == IF "fakeId" \in DOMAIN patchIO.data THEN patchIO.data.fakeId
                      ELSE patchIO.prev.fakeId
          IN  IF patchIO.hasTok
              THEN /\ patchIO.team.fakeId = Null
                   /\ patchIO.team.partial = (patchIO.prev.partial \/ fake # Null)
              ELSE /\ patchIO.team.fakeId = fake
                   /\ Kept("partial")

\* a Team with a name, a fakeId and a token is patched with a payload that
\* has only an id
PatchedWithIdOnly ==
    /\ patchIO.n > 0
    /\ DOMAIN patchIO.data = {"id"}
    /\ patchIO.prev.name = "a"
    /\ patchIO.prev.fakeId # Null
    /\ ~patchIO.prev.partial
    /\ patchIO.hasTok

\* what the reconnect code has done so far for the RTMClient of team t:
\* one timer of RECONNECT_PAUSE per reconnect() whose teardown returned, one
\* rtm.start() per timer that fired, one `disconnected` event per start that
\* failed
Accounted(t) ==
    /\ hist[t].scheduled + conn[t].closing = hist[t].signals
    /\ hist[t].attempts + conn[t].timers = hist[t].scheduled
    /\ hist[t].failed + conn[t].starts <= hist[t].attempts
    /\ hist[t].disc = hist[t].failed
    /\ hist[t].delay = IF hist[t].scheduled > 0 THEN RECONNECT_PAUSE ELSE 0

\* a restart that fails emits one `disconnected` event and sets no timer
FailureIsFinal(t) ==
    hist'[t].failed > hist[t].failed =>
        /\ emitted' = <<Ev("disconnected", t, Null, FALSE)>>
        /\ hist'[t].disc = hist[t].disc + 1
        /\ hist'[t].scheduled = hist[t].scheduled
        /\ conn'[t].timers = conn[t].timers
        /\ conn'[t].closing = conn[t].closing

\* C5: each goodbye or disconnected signal of a session tears the session
\* down and leads, after the delay of 15000 ms, to exactly one restart
\* attempt; an attempt that fails emits exactly one `disconnected` event and
\* schedules no further timer.
ReconnectOnce ==
    /\ [](\A t \in Teams : Accounted(t))
    /\ [][\A t \in Teams : FailureIsFinal(t)]_vars
    /\ \A t \in Teams : \A n \in 1 .. MaxSignals :
          (hist[t].signals >= n) ~> (hist[t].attempts >= n)

\* one signal, its one restart attempt failed, one `disconnected` event
RestartFailedOnce ==
    \E t \in Teams :
        /\ hist[t].signals = 1
        /\ hist[t].attempts = 1
        /\ hist[t].failed = 1
        /\ hist[t].disc = 1
        /\ conn[t] = ConnInit
        /\ rtmState[t] = "down"

\* C6: at most one reconnect timer is pending per team at any time.
OneTimerPerTeam == \A t \in Teams : conn[t].timers <= 1

\* C7: Client.disconnect() returns only after it has told every registered
\* session to disconnect, and from the moment it is called no reconnect timer
\* fires and no session is restarted.
NoRestartAfterDisconnect ==
    /\ \A t \in Teams : hist[t].late = 0
    /\ shutdown.phase # "idle" => \A t \in shutdown.visited : rtmState[t] = "down"

\* C8: handling app_uninstalled for a team removes the team from rtmMap,
\* webMap, tokens, teams, users and startup, and leaves every entry of every
\* other team unchanged.
UninstallRemovesTeam ==
    [][\A i \in DOMAIN calls' :
          calls'[i].op = "app_uninstalled" =>
              LET t == calls'[i].team IN
              /\ t \notin rtmMap' \cup webMap' \cup tokens' \cup startup'
              /\ t \notin DOMAIN teams' \cup DOMAIN users'
              /\ \A o \in Teams \ {t} :
                    /\ \A m \in {<<rtmMap, rtmMap'>>, <<webMap, webMap'>>,
                                 <<tokens, tokens'>>, <<startup, startup'>>} :
                          o \in m[1] <=> o \in m[2]
                    /\ o \in DOMAIN teams <=> o \in DOMAIN teams'
                    /\ o \in DOMAIN teams => teams'[o] = teams[o]
                    /\ o \in DOMAIN users <=> o \in DOMAIN users'
                    /\ o \in DOMAIN users => users'[o] = users[o]]_vars

\* C9: an addUser/addChannel for an unknown team with auto-create enabled
\* issues exactly one team.info fetch (and does not throw); with auto-create
\* disabled it changes no state and emits no event; no upsert issues more
\* than one fetch.
AutoCreateFetchesOnce ==
    \A i \in DOMAIN calls :
        LET k == calls[i] IN
        k.op \in {"addUser", "addChannel"} =>
            /\ k.fetches <= 1
            /\ ~k.known =>
                  IF k.create THEN k.fetches = 1 /\ ~k.threw
                  ELSE k.fetches = 0 /\ ~k.changed /\ k.evs = << >>

IsMessageEvent(e) == e.ev \in MessageEvents

\* C10: handleMessageEvent emits no message event for channel_join,
\* channel_name and message_replied, exactly one messageChanged(old, new)
\* for message_changed, exactly one messageDeleted(old) for message_deleted,
\* and exactly one message otherwise.
MessageEventPerSubtype ==
    \A i \in DOMAIN calls :
        LET k == calls[i] IN
        k.op = "handleMessageEvent" =>
            SelectSeq(k.evs, IsMessageEvent) =
                IF k.sub \in SuppressedSubtypes THEN << >>
                ELSE IF k.sub = "message_changed"
                     THEN <<MsgEv("messageChanged", k.team, "previous_message", "message")>>
                     ELSE IF k.sub = "message_deleted"
                          THEN <<MsgEv("messageDeleted", k.team, "previous_message", Null)>>
                          ELSE <<MsgEv("message", k.team, Null, "data")>>

\* C11: when a message event that is not suppressed carries a bot id, the
\* bot's user is upserted before the message, messageChanged or
\* messageDeleted event is emitted: the call of handleMessageEvent made an
\* addUser call for the bot that did not throw, it emitted its message event,
\* and getUser(botId, teamId) resolves, also when the team of the event is
\* not known to the store.
BotUpsertedBeforeMessage ==
    \A i \in DOMAIN calls :
        LET k == calls[i] IN
        (k.op = "handleMessageEvent" /\ k.sub \notin SuppressedSubtypes /\ k.id \in BotIds)
            => /\ \E j \in 1 .. (i - 1) :
                     /\ calls[j].op = "addUser"
                     /\ calls[j].team = k.team
                     /\ calls[j].id = k.id
                     /\ ~calls[j].threw
               /\ SelectSeq(k.evs, IsMessageEvent) # << >>
               /\ Has(teams, k.team)
               /\ Has(teams[k.team].users, k.id)

\* C12: a member_joined_channel / member_left_channel event of either
\* transport adds / removes the user in the membership set of the channel and
\* emits memberJoinedChannel / memberLeftChannel exactly when the user and
\* the channel both resolve in the team of the event; otherwise it emits no
\* event and changes no membership set.
MembershipFollowsResolution ==
    [][\A i \in DOMAIN calls' :
          LET k == calls'[i] IN
          k.op \in MemberOps =>
              IF hasUser(Cur, k.id, k.team) /\ hasChannel(Cur, k.sub, k.team)
              THEN /\ teams' = [teams EXCEPT ![k.team].channels[k.sub].members =
                                   IF k.op = "member_joined_channel"
                                   THEN @ \cup {k.id} ELSE @ \ {k.id}]
                   /\ emitted' = <<MemberEv(IF k.op = "member_joined_channel"
                                            THEN "memberJoinedChannel"
                                            ELSE "memberLeftChannel",
                                            k.team, k.id, k.sub, k.su)>>
              ELSE teams' = teams /\ emitted' = << >>]_vars

\* a member of a channel has left it: the event is emitted and the user is
\* out of the membership set
MemberLeft ==
    \E i \in DOMAIN calls :
        /\ calls[i].op = "member_left_channel"
        /\ calls[i].changed
        /\ Len(calls[i].evs) = 1
        /\ calls[i].id \notin teams[calls[i].team].channels[calls[i].sub].members

\* the store of the client: every field a handler can change
Store ==
    <<teams, tokens, webMap, rtmMap, users, startup, noRtm, pending, tasks,
      rtmState, stored>>

\* C13: every event of the Events API (app_uninstalled, channel and user
\* upserts, message, reactions, team_rename, membership) whose app id is not
\* the configured one is discarded: it changes no store state and emits no
\* domain event.
ForeignWebhookDiscarded ==
    [][\A i \in DOMAIN calls' :
          (calls'[i].op = "deliver" /\ calls'[i].via \in AppIds \ {OurApp})
              => /\ Store' = Store
                 /\ emitted' = << >>
                 /\ Len(calls') = 1]_vars

\* an app_uninstalled event with another app id was delivered for a team that
\* is registered with its session, and the team is still registered
ForeignUninstallIgnored ==
    \E i \in DOMAIN calls :
        /\ calls[i].op = "deliver"
        /\ calls[i].via \in AppIds \ {OurApp}
        /\ calls[i].ev = "app_uninstalled"
        /\ Has(teams, calls[i].team)
        /\ calls[i].team \in rtmMap \cap webMap \cap tokens

\* the credential of handler call k, as storeToken is given it
Credential(k) == IF k.ids THEN k.team ELSE ""

FallbackScoped ==
    \A t \in Teams : \A u \in Teams \ {t} :
        (rtmState[u] = "refused" /\ t \in stored) => rtmState[t] # "none"

\* the restore loop of connectToEventsApi has been run and has ended: no
\* addToken called by it is in flight
RestoreEnded == env.restore # << >> /\ \A k \in tasks : k.rest = << >>

\* C15: restoring the stored credentials adds every record the credential
\* store returned: when the restore has ended, each team of the list has had
\* its token added, also when the load or the session start of another team
\* of the list failed.
RestoreAddsAll ==
    RestoreEnded => \A i \in DOMAIN env.restore : env.restore[i] \in tokens

\* the answers to the list calls of Team.load given in the step
ListAnswers(cs) ==
    {cs[i].k : i \in {j \in DOMAIN cs : /\ cs[j].op = "answer"
                                         /\ cs[j].k.pc \in {"load.chans", "load.users"}
                                         /\ cs[j].ok}}

\* the list call that follows the answer to the call of k: the same list
\* with the cursor of the answer, or the first page of the next list
NextListCall(k) ==
    IF k.page < MaxPages THEN [k EXCEPT !.page = k.page + 1]
    ELSE [k EXCEPT !.pc = "load.users", !.page = 1]

\* the items of the page answered to k are in the team after the step
PageUpserted(k) ==
    IF k.pc = "load.chans"
    THEN \A j \in DOMAIN ChanPage(k.page) : Has(teams'[k.team].channels, ChanPage(k.page)[j])
    ELSE \A j \in DOMAIN UserPage(k.page) : Has(teams'[k.team].users, UserPage(k.page)[j])

\* every answered page is upserted and followed by exactly one call: for the
\* next cursor, or, after the last page, for the next list or for none
PagesDrained ==
    \A k \in ListAnswers(calls') :
        /\ PageUpserted(k)
        /\ IF k.pc = "load.users" /\ k.page = MaxPages
           THEN /\ \A k2 \in tasks' \ tasks : k2.pc \notin LoadPcs
                /\ ~teams'[k.team].partial
           ELSE tasks' \ tasks = {NextListCall(k)}

\* the teams whose partial flag the step sets to false
Completed == {t \in DOMAIN teams \cap DOMAIN teams' : teams[t].partial /\ ~teams'[t].partial}

\* C16 as the spec states it: load sets partial to false only after the last
\* page of the user list, the channel list having been drained before it.
PartialOnlyAfterLists ==
    [][/\ PagesDrained
       /\ \A t \in Completed :
             \E k \in ListAnswers(calls') :
                k.team = t /\ k.pc = "load.users" /\ k.page = MaxPages]_vars

\* C16: Team.load issues one call per page of each list, passing the
\* cursor of the page before, upserts the items of every page, stops when the
\* cursor is empty, and sets partial to false only after the last page of the
\* user list, the channel list having been drained before it; the load of a
\* team that has a fakeId sets partial to false after team.info and makes no
\* list call.
LoadDrainsPages ==
    [][/\ PagesDrained
       /\ \A t \in Completed :
             \/ \E k \in ListAnswers(calls') :
                   k.team = t /\ k.pc = "load.users" /\ k.page = MaxPages
             \/ /\ teams'[t].fakeId # Null
                /\ \E i \in DOMAIN calls' :
                      /\ calls'[i].op = "answer"
                      /\ calls'[i].k.pc = "load.info"
                      /\ calls'[i].k.team = t
                      /\ calls'[i].ok
                /\ \A k2 \in tasks' \ tasks : k2.pc \notin LoadPcs]_vars

\* a load has drained both lists: the channel of the first page and the users
\* of both pages are in the team, which is no longer partial
LoadedAllPages ==
    /\ ListAnswers(calls) # {}
    /\ \A k \in ListAnswers(calls) :
          /\ k.pc = "load.users"
          /\ k.page = MaxPages
          /\ Has(teams, k.team)
          /\ ~teams[k.team].partial
          /\ DOMAIN teams[k.team].users = UserIds
          /\ "C1" \in DOMAIN teams[k.team].channels

\* C17: from the `authenticated` signal until its handler returns, the team
\* is in the startup set, the session, the web client and the token are
\* registered under the team id, the Team and the self-User are in the store,
\* the credential is persisted only after the load, startup is left only at
\* the end, and no add<Entity> or change<Entity> event of the team is emitted
\* in between.
AuthenticatedInOrder ==
    \A k \in tasks :
        k.kind = "auth" =>
            /\ k.team \in startup \cap rtmMap \cap webMap \cap tokens
            /\ hasUser(Cur, SelfUser, k.team)
            /\ k.pc = "store" => ~teams[k.team].partial
            /\ \A i \in DOMAIN emitted :
                  emitted[i].ev \in EntityEvents => emitted[i].team # k.team

\* the joins started, and those completed, by the step
JoinsStarted == {p \in pending' \ pending : p.kind = "join"}
JoinsEnded == {p \in pending \ pending' : p.kind = "join"}

\* a join of channel ch of team t is under way
Joining(t, ch) == \E p \in pending : p.kind = "join" /\ p.team = t /\ p.id = ch

\* the last step emitted addChannel for channel ch of team t
AddChannelEmitted(t, ch) ==
    \E i \in DOMAIN emitted :
        emitted[i].ev = "addChannel" /\ emitted[i].team = t /\ emitted[i].id = ch

\* C19: a channel that addChannel creates while its team is not in startup
\* is registered in the store and has exactly one join started for it in the
\* same call; the completion of the join, success or failure, emits
\* addChannel exactly once, no other step emits addChannel, and every join
\* under way leads to the addChannel event of its channel.
JoinThenAddChannel ==
    /\ [][/\ \A i \in DOMAIN calls' :
                LET k == calls'[i] IN
                (k.op = "addChannel" /\ k.known /\ ~k.existed /\ ~k.su)
                    => /\ Cardinality({p \in JoinsStarted :
                                          p.team = k.team /\ p.id = k.id}) = 1
                       /\ k.evs = << >>
          /\ \A p \in JoinsStarted :
                /\ Has(teams', p.team)
                /\ Has(teams'[p.team].channels, p.id)
                /\ teams'[p.team].channels[p.id].ref = p.ref
          /\ \A p \in JoinsEnded :
                \E su \in BOOLEAN : emitted' = <<Ev("addChannel", p.team, p.id, su)>>
          /\ \A i \in DOMAIN emitted' :
                emitted'[i].ev = "addChannel" => Cardinality(JoinsEnded) = 1]_vars
    /\ \A t \in Teams : \A ch \in ChanIds : Joining(t, ch) ~> AddChannelEmitted(t, ch)

\* the join of a channel created outside startup has settled and addChannel
\* was emitted for the channel, which is in the store
JoinedAndAnnounced ==
    \E i \in DOMAIN calls :
        /\ calls[i].op = "join.then"
        /\ ~calls[i].su
        /\ AddChannelEmitted(calls[i].team, calls[i].id)
        /\ hasChannel(Cur, calls[i].id, calls[i].team)
        /\ ~Joining(calls[i].team, calls[i].id)

\* the addUser calls of the last step for a full bot of a registered team,
\* made outside startup
FullBotUpserts ==
    {i \in DOMAIN calls : /\ calls[i].op = "addUser"
                          /\ calls[i].known
                          /\ ~calls[i].su
                          /\ fullBot([id |-> calls[i].id])}

Finishes(t) ==
    \/ \E k \in tasks, ok \in BOOLEAN : k.team = t /\ TaskStep(k, ok)
    \/ Authenticated(t)
    \/ Ready(t)
    \/ Failures({t})

\* SpecEnds: SpecFallback where no handler or session start waits forever
SpecEnds ==
    /\ Init
    /\ [][NextFallback]_vars
    /\ \A t \in Teams : WF_vars(Finishes(t))

\* C21: a team that is in the startup set is removed from it later, whether
\* the operation that added it succeeds, falls back to webhook-only mode or
\* fails
StartupEnds == \A t \in Teams : (t \in startup) ~> (t \notin startup)


\* ------------------------------------------------ two transports (C22)

\* the raw events that both the RTMClient and the Events API deliver
DualEvents ==
    {"message", "channel_created", "user_change", "team_rename"}
        \cup ReactionOps \cup MemberOps

\* the transports whose events are handled: the RTMClient and the Events API
\* with the configured app id
Transports == {"rtm", OurApp}

\* every kind of raw event about team t, over either transport
BothTransports(t) ==
    \/ \E via \in Transports, u \in UserIds, n \in Names : UserEvent(via, t, u, n)
    \/ \E via \in Transports, ch \in EventChans, n \in Names : ChannelEvent(via, t, ch, n)
    \/ \E p \in pending, ok \in BOOLEAN : Continuation(p, ok)
    \/ \E via \in Transports, n \in Names : TeamRename(via, t, n)
    \/ \E via \in Transports, sub \in WebhookSubtypes : MessageEvent(via, t, sub, Undef)
    \/ \E via \in Transports, op \in MemberOps, ch \in ChanIds \ EventChans :
          MemberEvent(via, t, op, SelfUser, ch)
    \/ \E via \in Transports, op \in ReactionOps : ReactionEvent(via, t, op)

\* SpecDual: one team is onboarded while raw events of every kind arrive over
\* its RTMClient and over the Events API
NextDual == Onboarding(Onboarded) \/ \E t \in Onboarded : BothTransports(t)

SpecDual == Init /\ [][NextDual]_vars

\* C22: with webhook events configured, no message, reaction, membership,
\* channel, user or team_rename event is handled over the streaming
\* transport: the handlers of these events are not registered on the
\* RTMClient, so an event that both transports deliver is handled once, by
\* the webhook handler.
OneTransportHandles ==
    \A i \in DOMAIN calls :
        (optsEvents /\ calls[i].op = "deliver" /\ calls[i].ev \in DualEvents)
            => calls[i].via \in AppIds

\* both transports of a team are active, a message of that team was delivered
\* over the Events API and it produced exactly one domain event
WebhookHandledOnce ==
    \E i \in DOMAIN calls :
        /\ optsEvents
        /\ calls[i].op = "deliver"
        /\ calls[i].ev = "message"
        /\ calls[i].via = OurApp
        /\ calls[i].team \in rtmMap \cap webMap
        /\ rtmState[calls[i].team] = "up"
        /\ Len(emitted) = 1
        /\ emitted[1].ev = "message"


\* ------------------------------------------------ after the teardown (C23)

\* SpecTeardown: one team is onboarded, its session drops and is restarted,
\* and the app is uninstalled from it
NextTeardown ==
    \/ Onboarding(Onboarded)
    \/ \E t \in Onboarded : Reconnect(t, MaxDrops)
    \/ \E t \in Onboarded : AppUninstalled(OurApp, t)

SpecTeardown == Init /\ [][NextTeardown]_vars

\* team t has no session, no web client, no token and no Team
Gone(t) == t \notin rtmMap \cup webMap \cup tokens /\ ~Has(teams, t)

\* app_uninstalled was handled for team t, its handler has returned, no other
\* handler of t is suspended and t is absent from the maps
Uninstalled(t) == env.uninstall > 0 /\ Gone(t) /\ \A k \in tasks : k.team # t

\* C23: once app_uninstalled has been handled for a team, the team stays
\* absent from the session, web-client, token and team maps in every step
\* that is not a new addToken request for it: nothing that the teardown left
\* behind registers the team again.
StaysUninstalled ==
    [][\A t \in Onboarded :
          (Uninstalled(t) /\ env'.onboard[t] = env.onboard[t]) => Gone(t)']_vars


\* ------------------------------------------------ the per-team maps (C24)

\* SpecMaps: one team is onboarded with or without a failing start, its
\* session drops and is restarted, the app is uninstalled from it, and user
\* and team_rename events arrive over both transports
NextMaps ==
    \/ NextTeardown
    \/ Failures(Onboarded)
    \/ \E via \in Transports, t \in Onboarded, n \in Names : UserEvent(via, t, SelfUser, n)
    \/ \E via \in Transports, t \in Onboarded, n \in Names : TeamRename(via, t, n)
    \/ \E p \in pending, ok \in BOOLEAN : Continuation(p, ok)

SpecMaps == Init /\ [][NextMaps]_vars

\* the self-user recorded for team t is the User registered under its id in
\* the users collection of the Team registered under t
SelfIsMember(t) ==
    /\ Has(teams, t)
    /\ Has(teams[t].users, users[t].id)
    /\ teams[t].users[users[t].id].ref = users[t].ref

\* C24: in every reachable state every team with a session has a web client
\* and a token, the web-client map and the token map have the same keys,
\* every team with a token is in the team registry, and the self-user
\* recorded for a team is a member of that team's users collection.
MapsConsistent ==
    /\ rtmMap \subseteq webMap \cap tokens
    /\ webMap = tokens
    /\ tokens \subseteq DOMAIN teams
    /\ \A t \in DOMAIN users : SelfIsMember(t)

\* a team that was torn down by app_uninstalled is registered again, as a
\* second Team object, with its session, web client, token and self-user
RegisteredAfterTeardown ==
    \E t \in Teams :
        /\ env.uninstall > 0
        /\ gen.t[t] > 1
        /\ t \in rtmMap
        /\ Has(users, t)
        /\ rtmState[t] = "up"

====
